---- MODULE Spec2Model ----
(***************************************************************************)
(* Model of vault-editor: the marker grammar (vault_editor/notes.py), the   *)
(* replacement formatter and document rewriter (scripts/insert_images.py)   *)
(* and the two command line tools' runs over a vault.                       *)
(*                                                                          *)
(* Text is a sequence of lexemes (strings): a lexeme stands for the run of  *)
(* characters it spells, offsets count lexemes.  Python's None is the empty *)
(* tuple and a present value v is the one-element tuple <<v>>.  A file      *)
(* holds what is on disk, a line break being "\n" or "\r\n"; the text of a  *)
(* note is what read_text makes of it.                                      *)
(***************************************************************************)
EXTENDS Integers, Sequences, FiniteSets, TLC

VARIABLES
    args,           \* command line: [tool, apply, yes, note]
    config,         \* secrets.json: [confirm_writes]
    notes,          \* the list of note paths main() iterates over
    files,          \* the vault: note path -> content, for the notes that exist
    files0,         \* the vault as it was when the run started
    attachments,    \* file names present in the attachments directory
    backups,        \* the backup store: <<note, timestamp>> -> content
    now,            \* wall clock, in seconds
    events,         \* file operations and answers to prompts, in order
    pc,             \* position of the run
    i,              \* index into notes of the note being processed
    loc,            \* locals of the process_note call in progress
    total_changes   \* main()'s counter

vars == <<args, config, notes, files, files0, attachments, backups, now,
          events, pc, i, loc, total_changes>>

\* ------------------------------------------------------------------ bounds

\* Pieces a note's text is made of, in a run on one note with --apply --yes.
MaxPieces == 3
\* Pieces the texts of all the notes of a vault are made of, in the runs of
\* insert_images with any command line.
VaultPieces == 2
\* Size of a note given to needs_info: the entries of its tag fields and the
\* lexemes of its body, in all.
NoteSize == 3
\* Lexemes of the path given to build_replacement, below the vault.
MaxPath == 3
\* Seconds the wall clock may advance during a run.
MaxClock == 2

\* ------------------------------------------------------------ option values

None == <<>>
Some(v) == <<v>>
IsNone(o) == o = <<>>
Get(o) == o[1]

\* ------------------------------------------------------------------ lexemes

Quotes == {"\"", "'"}
\* The lexemes that \s and str.strip() take for whitespace.
Whitespace == {" ", "\n"}
Kinds == {"IMAGE", "BOOK", "BOOKISBN", "AIIMAGE", "MOVIE", "TV"}

\* str.upper() on the lexemes that occur in a kind position.
Upper(w) ==
    CASE w = "image" -> "IMAGE"
      [] w = "book" -> "BOOK"
      [] w = "movie" -> "MOVIE"
      [] w = "tv" -> "TV"
      [] OTHER -> w

\* text[a:b] with Python's 0-based, half-open offsets.
Slice(s, a, b) == SubSeq(s, a + 1, b)

RECURSIVE LStrip(_)
LStrip(s) == IF s # <<>> /\ Head(s) \in Whitespace THEN LStrip(Tail(s)) ELSE s

RECURSIVE RStrip(_)
RStrip(s) ==
    IF s # <<>> /\ s[Len(s)] \in Whitespace THEN RStrip(SubSeq(s, 1, Len(s) - 1)) ELSE s

\* str.strip()
Strip(s) == RStrip(LStrip(s))

\* The lexeme at 0-based offset p, "" past the end of the text.
At(text, p) == IF p < Len(text) THEN text[p + 1] ELSE ""

\* \s* : the first offset at or after p that holds no whitespace.
RECURSIVE SkipWs(_, _)
SkipWs(text, p) == IF At(text, p) \in Whitespace THEN SkipWs(text, p + 1) ELSE p

\* The first offset at or after p holding a lexeme of stop, or the end of text.
RECURSIVE FindFirst(_, _, _)
FindFirst(text, p, stop) ==
    IF p >= Len(text) \/ text[p + 1] \in stop THEN p
    ELSE FindFirst(text, p + 1, stop)

\* ------------------------------------------------------------ marker grammar

ImageMarker(kind, query, alt, quote_char, start, end) ==
    [kind |-> kind, query |-> query, alt |-> alt,
     quoted |-> ~IsNone(quote_char), quote_char |-> quote_char,
     start |-> start, end |-> end]

\* The end of the closing-quote part (?P=quote)? of a match whose comment ends
\* at cend: the back-reference takes the same quote character when it follows.
CloseQuote(text, quote, cend) ==
    IF ~IsNone(quote) /\ At(text, cend) = Get(quote) THEN cend + 1 ELSE cend

\* MARKER_PATTERN tried at offset p: None, or the match as an ImageMarker.
\*   (?P<quote>["'])? <!-- \s* KIND \s* : \s* query \s* (\| \s* alt \s*)? -->
\*   (?P=quote)?
\* The quote group is greedy and the comment opener cannot start with a quote,
\* so a quote at p is always taken.  query is [^|>]+? and so ends at the first
\* "|" or "-->"; alt is [^>]+? and ends at the first "-->".
MatchAt(text, p) ==
    LET quote == IF At(text, p) \in Quotes THEN Some(At(text, p)) ELSE None
        open == IF IsNone(quote) THEN p ELSE p + 1
        kpos == SkipWs(text, open + 1)
        cpos == SkipWs(text, kpos + 1)
        qend == FindFirst(text, cpos + 1, {"|", "-->"})
        aend == FindFirst(text, qend + 1, {"-->"})
        hasAlt == At(text, qend) = "|"
        cend == IF hasAlt THEN aend + 1 ELSE qend + 1
    IN  IF /\ At(text, open) = "<!--"
           /\ Upper(At(text, kpos)) \in Kinds
           /\ At(text, cpos) = ":"
           /\ qend > cpos + 1
           /\ \/ At(text, qend) = "-->"
              \/ hasAlt /\ At(text, aend) = "-->" /\ aend > qend + 1
        THEN Some(ImageMarker(
                 Upper(At(text, kpos)),
                 Strip(Slice(text, cpos + 1, qend)),
                 IF hasAlt THEN Some(Strip(Slice(text, qend + 1, aend))) ELSE None,
                 quote, p, CloseQuote(text, quote, cend)))
        ELSE None

\* MARKER_PATTERN.finditer(text) from offset p: leftmost, non-overlapping.
RECURSIVE FindFrom(_, _)
FindFrom(text, p) ==
    IF p >= Len(text) THEN <<>>
    ELSE LET m == MatchAt(text, p)
         IN  IF IsNone(m) THEN FindFrom(text, p + 1)
             ELSE <<Get(m)>> \o FindFrom(text, Get(m).end)

find_markers(text) == FindFrom(text, 0)

\* -------------------------------------------------------- replacement format

\* Path.relative_to(base).as_posix(): the path below base.
RelativeTo(path, base) == SubSeq(path, Len(base) + 2, Len(path))

\* str.replace(" ", "%20")
PercentEncode(s) == [j \in 1..Len(s) |-> IF s[j] = " " THEN "%20" ELSE s[j]]

\* Python truthiness of an optional text (a sequence of lexemes).
Truthy(o) == ~IsNone(o) /\ Get(o) # <<>>

\* Python truthiness of an optional character.
TruthyChar(o) == ~IsNone(o) /\ Get(o) # ""

\* A formatter that looks at alt before quoted.
build_replacement_alt_first(image_path, base, alt, quoted, quote_char) ==
    LET rel_path == RelativeTo(image_path, base)
        quote == IF TruthyChar(quote_char) THEN Get(quote_char) ELSE "\""
    IN  IF Truthy(alt)
        THEN <<"![">> \o Get(alt) \o <<"](">>
                 \o PercentEncode(rel_path) \o <<")">>
        ELSE IF quoted THEN <<quote, "[[">> \o rel_path \o <<"]]", quote>>
             ELSE <<"![[">> \o rel_path \o <<"]]">>

build_replacement(image_path, base, alt, quoted, quote_char) ==
    LET rel_path == RelativeTo(image_path, base)
        quote == IF TruthyChar(quote_char) THEN Get(quote_char) ELSE "\""
    IN  IF quoted THEN <<quote, "[[">> \o rel_path \o <<"]]", quote>>
        ELSE IF Truthy(alt)
             THEN <<"![">> \o Get(alt) \o <<"](">>
                      \o PercentEncode(rel_path) \o <<")">>
             ELSE <<"![[">> \o rel_path \o <<"]]">>

\* ------------------------------------------------------------------- inputs

\* What a note file is made of: plain text, the two quote characters, a line
\* break and one comment per marker kind, with and without alt text and
\* whitespace.
Pieces ==
    { <<"x">>, <<"\"">>, <<"'">>, <<"\r\n">>,
      <<"<!--", "IMAGE", ":", "q", "-->">>,
      <<"<!--", " ", "book", ":", " ", "q", " ", "-->">>,
      <<"<!--", "BOOKISBN", ":", "q", "|", " ", "-->">>,
      <<"<!--", "AIIMAGE", ":", "q", "-->">>,
      <<"<!--", "MOVIE", ":", "q", "|", "a", "-->">>,
      <<"<!--", " ", "TV", " ", ":", " ", "q", " ", "-->">> }

\* The texts made of at most n pieces.
RECURSIVE Docs(_)
Docs(n) ==
    IF n = 0 THEN {<<>>}
    ELSE Docs(n - 1) \cup {d \o p : d \in Docs(n - 1), p \in Pieces}

NoteNames == {"a.md", "b.md"}

\* The vaults of two notes whose texts are made of at most n pieces in all.
Vaults(n) ==
    UNION {{[x \in NoteNames |-> IF x = "a.md" THEN da ELSE db] :
               da \in Docs(m), db \in Docs(n - m)} : m \in 0..n}

vault_path == <<"vault">>
\* vault_path / config.attachments_dir, a directory name with a space in it.
attachments_dir == vault_path \o <<"/", "my", " ", "att">>

\* The file name download_image / generate_openai_image derive for a marker.
FileName(kind) == IF kind = "AIIMAGE" THEN "q.png" ELSE "img.jpg"

\* Marker kinds whose search raises on a network or service error
\* (response.raise_for_status()); search_open_library_isbn catches its own.
RaisingKinds == {"IMAGE", "BOOK", "MOVIE", "TV"}

NoLocals == [tool |-> "none"]

\* --------------------------------------------------------------- file system

\* datetime.now().strftime("%Y%m%d_%H%M%S"): the clock, read to the second.
\* Time passes between two readings, or does not.
Timestamps == {t \in {now, now + 1} : t <= MaxClock}

\* Path.write_text in the backup store: the file is created or overwritten.
PutBackup(store, key, content) ==
    [x \in DOMAIN store \cup {key} |-> IF x = key THEN content ELSE store[x]]

\* Path.write_text on a note: the file is overwritten.
PutNote(fs, path, content) ==
    [x \in DOMAIN fs \cup {path} |-> IF x = path THEN content ELSE fs[x]]

Exists(path) == path \in DOMAIN files

\* Text mode with universal newlines, on reading: "\r\n" is read as "\n".
Decode(raw) ==
    [j \in 1..Len(raw) |-> IF raw[j] = "\r\n" THEN "\n" ELSE raw[j]]

\* os.linesep, on POSIX.
linesep == "\n"

\* Text mode on writing: "\n" is written as os.linesep.
Encode(text) ==
    [j \in 1..Len(text) |-> IF text[j] = "\n" THEN linesep ELSE text[j]]

\* path.read_text(encoding="utf-8") on a note file: for insert_images a text,
\* for needs_info the front matter block and the text after it.
ReadText(content) ==
    IF args.tool = "needs_info" THEN [content EXCEPT !.body = Decode(@)]
    ELSE Decode(content)

\* What path.write_text(content, encoding="utf-8") puts on disk.
WriteText(content) ==
    IF args.tool = "needs_info" THEN [content EXCEPT !.body = Encode(@)]
    ELSE Encode(content)

\* read_note(path)
read_note(path) == ReadText(files[path])

\* ----------------------------------------------- insert_images.py: the run

\* main(), up to the loop over the notes: the dry-run listing only prints.
II_Start ==
    /\ pc = "ii_start"
    /\ pc' = "ii_loop"
    /\ UNCHANGED <<args, config, notes, files, files0, attachments, backups,
                   now, events, i, loc, total_changes>>

\* main(): "Skip missing", the note path does not exist.
II_SkipMissing ==
    /\ pc = "ii_loop"
    /\ i <= Len(notes)
    /\ ~Exists(notes[i])
    /\ i' = i + 1
    /\ UNCHANGED <<args, config, notes, files, files0, attachments, backups,
                   now, events, pc, loc, total_changes>>

\* process_note(), up to its loop: read the note and find its markers.  With
\* no marker it returns (original, 0, 0) and main() goes on to the next note.
II_ReadNote ==
    /\ pc = "ii_loop"
    /\ i <= Len(notes)
    /\ Exists(notes[i])
    /\ LET original == read_note(notes[i])
           markers == find_markers(original)
       IN  /\ loc' = [tool |-> "insert_images", original |-> original,
                      markers |-> markers, updated |-> original,
                      offset |-> 0, replacements |-> 0, k |-> 1,
                      outs |-> <<>>]
           /\ IF markers = <<>>
              THEN i' = i + 1 /\ UNCHANGED pc
              ELSE pc' = "ii_markers" /\ UNCHANGED i
    /\ UNCHANGED <<args, config, notes, files, files0, attachments, backups,
                   now, events, total_changes>>

\* A loop that ends after its first turn.
LoopDoneAfterFirst(f) == f.k > 1

\* "for marker in markers" has run out of markers: process_note returns.
LoopDone(f) == f.k > Len(f.markers)

InMarkerLoop == pc = "ii_markers" /\ ~LoopDone(loc)
marker == loc.markers[loc.k]

\* A skip that moves the offset by the span of the marker it leaves.
SkipShiftsOffset(f) ==
    [f EXCEPT !.k = @ + 1, !.outs = Append(@, None),
              !.offset = @ - (f.markers[f.k].end - f.markers[f.k].start)]

\* "if not image_path: continue": on to the next marker, nothing replaced.
\* outs records, per marker, the replacement made (None: none).
Skip(f) == [f EXCEPT !.k = @ + 1, !.outs = Append(@, None)]

\* No try/except around generate_openai_image.
UncaughtAnywhere(stage) == TRUE

\* The stages of resolving a marker at which an exception leaves process_note:
\* all but the call of generate_openai_image, which is inside try/except.
Uncaught(stage) == stage # "generate"

\* The stages at which resolving a marker of a kind can raise.
CanRaise(kind, stage) ==
    CASE stage = "search" -> kind \in RaisingKinds
      [] stage = "generate" -> kind = "AIIMAGE"
      [] OTHER -> kind # "AIIMAGE" /\ FileName(kind) \notin attachments

\* process_note(), one turn of the loop where image_path stays None: the
\* search found nothing (or, for MOVIE and TV, the API key is empty).
II_MarkerNotFound ==
    /\ InMarkerLoop
    /\ marker.kind # "AIIMAGE"
    /\ loc' = Skip(loc)
    /\ UNCHANGED <<args, config, notes, files, files0, attachments, backups,
                   now, events, pc, i, total_changes>>

\* process_note(), one turn of the loop where generate_openai_image raises
\* (missing key, error status, no image data, network failure): the except
\* clause prints and image_path stays None.
II_MarkerAIFailed ==
    /\ InMarkerLoop
    /\ CanRaise(marker.kind, "generate")
    /\ loc' = Skip(loc)
    /\ UNCHANGED <<args, config, notes, files, files0, attachments, backups,
                   now, events, pc, i, total_changes>>

\* A splice whose offset grows by the replacement's length alone.
SpliceForgetsSpan(f, m, replacement) ==
    LET start == m.start + f.offset
        end == m.end + f.offset
    IN  [f EXCEPT
           !.replacements = @ + 1,
           !.updated = Slice(f.updated, 0, start) \o replacement
                         \o Slice(f.updated, end, Len(f.updated)),
           !.offset = @ + Len(replacement),
           !.k = @ + 1,
           !.outs = Append(@, Some(replacement))]

\* The splice of process_note(): updated, offset and replacements after the
\* marker m of frame f has been replaced by replacement.
Splice(f, m, replacement) ==
    LET start == m.start + f.offset
        end == m.end + f.offset
    IN  [f EXCEPT
           !.replacements = @ + 1,
           !.updated = Slice(f.updated, 0, start) \o replacement
                         \o Slice(f.updated, end, Len(f.updated)),
           !.offset = @ + Len(replacement) - (m.end - m.start),
           !.k = @ + 1,
           !.outs = Append(@, Some(replacement))]

\* download_image / generate_openai_image: the target file is written unless
\* a file of that name is there already.
Download(file) ==
    /\ attachments' = attachments \cup {file}
    /\ events' = IF file \in attachments THEN events
                 ELSE Append(events, [op |-> "download", file |-> file])

\* process_note(), one turn of the loop with an image: the image is downloaded
\* (or generated) into the attachments directory and the marker is replaced.
II_MarkerResolved ==
    /\ InMarkerLoop
    /\ LET file == FileName(marker.kind)
           image_path == attachments_dir \o <<"/", file>>
           replacement == build_replacement(image_path, vault_path, marker.alt,
                                            marker.quoted, marker.quote_char)
       IN  /\ Download(file)
           /\ loc' = Splice(loc, marker, replacement)
    /\ UNCHANGED <<args, config, notes, files, files0, backups, now, pc, i,
                   total_changes>>

\* process_note(), one turn of the loop where the search or the download raises
\* (raise_for_status, a timeout): nothing catches it, neither in process_note
\* nor in main(), and the run ends with the traceback.  A download that fails
\* while streaming leaves the partial file behind.
II_MarkerRaises ==
    /\ InMarkerLoop
    /\ \E stage \in {"search", "download", "stream", "generate"} :
          /\ CanRaise(marker.kind, stage)
          /\ Uncaught(stage)
          /\ IF stage = "stream" THEN Download(FileName(marker.kind))
             ELSE UNCHANGED <<attachments, events>>
    /\ pc' = "crashed"
    /\ UNCHANGED <<args, config, notes, files, files0, backups, now, i, loc,
                   total_changes>>

\* main(), after process_note returned: nothing replaced, or nothing changed,
\* or a dry run: on to the next note.  Otherwise the change is planned, and
\* confirmed if config.confirm_writes and not --yes.
II_Decide ==
    /\ pc = "ii_markers"
    /\ LoopDone(loc)
    /\ IF loc.replacements = 0 \/ loc.updated = read_note(notes[i])
       THEN /\ i' = i + 1
            /\ pc' = "ii_loop"
            /\ UNCHANGED total_changes
       ELSE /\ total_changes' = total_changes + 1
            /\ IF ~args.apply
               THEN i' = i + 1 /\ pc' = "ii_loop"
               ELSE /\ UNCHANGED i
                    /\ pc' = IF config.confirm_writes /\ ~args.yes
                             THEN "ii_confirm" ELSE "ii_backup"
    /\ UNCHANGED <<args, config, notes, files, files0, attachments, backups,
                   now, events, loc>>

\* The user's answer to a confirm() prompt, recorded.
Answered(answer) ==
    events' = Append(events, [op |-> "confirm", note |-> notes[i],
                              answer |-> answer])

\* A prompt whose answer is not looked at.
II_ConfirmIgnored ==
    /\ pc = "ii_confirm"
    /\ \E answer \in BOOLEAN : Answered(answer)
    /\ pc' = "ii_backup"
    /\ UNCHANGED <<args, config, notes, files, files0, attachments, backups,
                   now, i, loc, total_changes>>

\* confirm("Apply changes to this note?")
II_Confirm ==
    /\ pc = "ii_confirm"
    /\ \E answer \in BOOLEAN :
          /\ Answered(answer)
          /\ IF answer THEN pc' = "ii_backup" /\ UNCHANGED i
             ELSE pc' = "ii_loop" /\ i' = i + 1
    /\ UNCHANGED <<args, config, notes, files, files0, attachments, backups,
                   now, loc, total_changes>>

\* backup_note(): the text of the note, read from disk, is written to
\* backup_root/<relative path>.<timestamp>.bak
backup_note(note_path) ==
    \E timestamp \in Timestamps :
       LET content == WriteText(ReadText(files[note_path]))
       IN  /\ now' = timestamp
           /\ backups' = PutBackup(backups, <<note_path, timestamp>>, content)
           /\ events' = Append(events, [op |-> "backup", note |-> note_path,
                                        timestamp |-> timestamp,
                                        content |-> content])

II_Backup ==
    /\ pc = "ii_backup"
    /\ backup_note(notes[i])
    /\ pc' = "ii_write"
    /\ UNCHANGED <<args, config, notes, files, files0, attachments, i, loc,
                   total_changes>>

\* write_note(note_path, content), recorded with the file content it replaces
\* and the locals of the caller at that moment.
write_note(note_path, content) ==
    /\ files' = PutNote(files, note_path, WriteText(content))
    /\ events' = Append(events, [op |-> "write", note |-> note_path,
                                 pre |-> files[note_path],
                                 content |-> WriteText(content), at |-> loc])

II_Write ==
    /\ pc = "ii_write"
    /\ write_note(notes[i], loc.updated)
    /\ i' = i + 1
    /\ pc' = "ii_loop"
    /\ UNCHANGED <<args, config, notes, files0, attachments, backups, now, loc,
                   total_changes>>

\* main(), after the loop: "No changes needed." and return 0.
II_Finish ==
    /\ pc = "ii_loop"
    /\ i > Len(notes)
    /\ pc' = "done"
    /\ UNCHANGED <<args, config, notes, files, files0, attachments, backups,
                   now, events, i, loc, total_changes>>

\* What a run starts from, but for the command line and the vault.
II_Begin ==
    /\ files0 = files
    /\ attachments = {}
    /\ backups = <<>>
    /\ now = 0
    /\ events = <<>>
    /\ pc = "ii_start"
    /\ i = 1
    /\ loc = NoLocals
    /\ total_changes = 0

\* The runs of insert_images: --note names one note, which may be missing;
\* without it the vault is scanned and holds the two notes.
II_Init ==
    /\ args \in [tool : {"insert_images"}, apply : BOOLEAN, yes : BOOLEAN,
                 note : BOOLEAN]
    /\ config \in [confirm_writes : BOOLEAN]
    /\ IF args.note
       THEN /\ notes = <<"a.md">>
            /\ files \in {<<>>} \cup
                         {[x \in {"a.md"} |-> d] : d \in Docs(VaultPieces)}
       ELSE /\ notes = <<"a.md", "b.md">>
            /\ files \in Vaults(VaultPieces)
    /\ II_Begin

II_Next ==
    \/ II_Start
    \/ II_SkipMissing
    \/ II_ReadNote
    \/ II_MarkerNotFound
    \/ II_MarkerAIFailed
    \/ II_MarkerResolved
    \/ II_MarkerRaises
    \/ II_Decide
    \/ II_Confirm
    \/ II_Backup
    \/ II_Write
    \/ II_Finish

SpecImages == II_Init /\ [][II_Next]_vars

\* The runs "insert_images --apply --yes --note a.md" with confirm_writes set,
\* over every text of the note.
Note_Init ==
    /\ args = [tool |-> "insert_images", apply |-> TRUE, yes |-> TRUE,
               note |-> TRUE]
    /\ config = [confirm_writes |-> TRUE]
    /\ notes = <<"a.md">>
    /\ files \in {[x \in {"a.md"} |-> d] : d \in Docs(MaxPieces)}
    /\ II_Begin

Note_Next ==
    \/ II_Start
    \/ II_ReadNote
    \/ II_MarkerNotFound
    \/ II_MarkerAIFailed
    \/ II_MarkerResolved
    \/ II_MarkerRaises
    \/ II_Decide
    \/ II_Backup
    \/ II_Write
    \/ II_Finish

SpecNote == Note_Init /\ [][Note_Next]_vars

\* =========================================================== needs_info.py

NEEDSINFO_TAG == "needsinfo"
BOOK_TAG == "book"
MOVIE_TAG == "movie"

\* A note is [has_fm, fm, body]: whether it starts with a front matter block,
\* the mapping yaml.safe_load gives for it (a field that is absent is None)
\* and the text after it.  A tag field's value is [kind, items]: a YAML list
\* of items, or a string spelling the items with delimiters between them.
NoFields ==
    [tags |-> None, tag |-> None, ISBN |-> None, Image |-> None,
     Service |-> None, TMDB |-> None]

\* split_frontmatter(text): (fm, body); fm is None without front matter.
split_frontmatter(text) ==
    [fm |-> IF text.has_fm THEN Some(text.fm) ELSE None, body |-> text.body]

\* f"---\n{dump_frontmatter(fm)}\n---\n{body}"
Assemble(fm, body) == [has_fm |-> TRUE, fm |-> fm, body |-> body]

\* tag.strip().lstrip("#").lower()
normalize_tag(tag) == IF tag = "#NeedsInfo" THEN "needsinfo" ELSE tag

\* parse_tags(value): the normalized items of a list or of a delimited string.
parse_tags(value) ==
    IF IsNone(value) THEN <<>>
    ELSE [j \in 1..Len(Get(value).items) |-> normalize_tag(Get(value).items[j])]

\* set_tags(value, tags): tags in the shape of value; ", ".join for a string.
set_tags(value, tags) ==
    IF ~IsNone(value) /\ Get(value).kind = "str"
    THEN [kind |-> "str", items |-> tags]
    ELSE [kind |-> "list", items |-> tags]

\* Python truthiness of fm.get(key): None, [] and "" are false.
TruthyValue(value) == ~IsNone(value) /\ Get(value).items # <<>>

\* fm.get("tags") or fm.get("tag")
TagsValue(fm) == IF TruthyValue(fm.tags) THEN fm.tags ELSE fm.tag

\* Lexemes that start with a word character.
WordLexemes == {"x"}

\* The offsets (1-based) where (?<!\S)#tag\b matches in text: the hashtag is
\* at the start or after whitespace, and no word character follows it.
InlineMatches(text, tag) ==
    {p \in 1..Len(text) :
        /\ text[p] = "#" \o tag
        /\ p = 1 \/ text[p - 1] \in Whitespace
        /\ p = Len(text) \/ text[p + 1] \notin WordLexemes}

has_inline_tag(text, tag) == InlineMatches(text, tag) # {}

\* text without the lexemes at the offsets of drop, from offset p on.
RECURSIVE Without(_, _, _)
Without(text, drop, p) ==
    IF p > Len(text) THEN <<>>
    ELSE (IF p \in drop THEN <<>> ELSE <<text[p]>>) \o Without(text, drop, p + 1)

\* re.sub(pattern, "", text): every match, found in text as it is, is removed.
remove_inline_tag(text, tag) == Without(text, InlineMatches(text, tag), 1)

\* re.sub(r"\n{3,}", "\n\n", body), with run the newlines just before text.
RECURSIVE CollapseFrom(_, _)
CollapseFrom(text, run) ==
    IF text = <<>> THEN <<>>
    ELSE IF Head(text) = "\n"
         THEN (IF run >= 2 THEN <<>> ELSE <<"\n">>)
                  \o CollapseFrom(Tail(text), run + 1)
         ELSE <<Head(text)>> \o CollapseFrom(Tail(text), 0)

CollapseNewlines(body) == CollapseFrom(body, 0)

\* [t for t in tags if t != NEEDSINFO_TAG]
RECURSIVE WithoutTag(_, _)
WithoutTag(tags, t) ==
    IF tags = <<>> THEN <<>>
    ELSE (IF Head(tags) = t THEN <<>> ELSE <<Head(tags)>>)
             \o WithoutTag(Tail(tags), t)

InSeq(x, seq) == \E j \in 1..Len(seq) : seq[j] = x

\* A test that only catches the note with neither tag.
AmbiguousNeitherOnly(has_book, has_movie) == ~has_book /\ ~has_movie

\* "if has_book == has_movie": both tags or neither, the note is skipped.
Ambiguous(has_book, has_movie) == has_book = has_movie

\* process_note(), lines 112-127: what it reads and derives from the note.
Examine(text) ==
    LET parts == split_frontmatter(text)
        fm == IF IsNone(parts.fm) THEN NoFields ELSE Get(parts.fm)
        body == parts.body
        tags_value == TagsValue(fm)
        tags == parse_tags(tags_value)
    IN  [tool |-> "needs_info", text |-> text, fm |-> fm, body |-> body,
         tags_value |-> tags_value, tags |-> tags,
         has_needsinfo |-> InSeq(NEEDSINFO_TAG, tags)
                             \/ has_inline_tag(body, NEEDSINFO_TAG),
         has_book |-> InSeq(BOOK_TAG, tags) \/ has_inline_tag(body, BOOK_TAG),
         has_movie |-> InSeq(MOVIE_TAG, tags)
                          \/ has_inline_tag(body, MOVIE_TAG),
         new_text |-> None]

\* process_note(), lines 176-187: the tag is removed and the note reassembled.
Rewrite(f, fm) ==
    LET tags == WithoutTag(f.tags, NEEDSINFO_TAG)
        fm2 == [fm EXCEPT !.tags = Some(set_tags(f.tags_value, tags))]
        body == CollapseNewlines(remove_inline_tag(f.body, NEEDSINFO_TAG))
    IN  [f EXCEPT !.fm = fm2, !.body = body, !.tags = tags,
                  !.new_text = Some(Assemble(fm2, body))]

\* main(): the note path does not exist.
NI_SkipMissing ==
    /\ pc = "ni_loop"
    /\ i <= Len(notes)
    /\ ~Exists(notes[i])
    /\ i' = i + 1
    /\ UNCHANGED <<args, config, notes, files, files0, attachments, backups,
                   now, events, pc, loc, total_changes>>

\* process_note(), up to the lookups: without the needs-info tag, or with an
\* ambiguous classification, it returns False.
NI_Examine ==
    /\ pc = "ni_loop"
    /\ i <= Len(notes)
    /\ Exists(notes[i])
    /\ loc' = Examine(read_note(notes[i]))
    /\ IF ~loc'.has_needsinfo \/ Ambiguous(loc'.has_book, loc'.has_movie)
       THEN i' = i + 1 /\ UNCHANGED pc
       ELSE pc' = "ni_lookup" /\ UNCHANGED i
    /\ UNCHANGED <<args, config, notes, files, files0, attachments, backups,
                   now, events, total_changes>>

\* process_note(): "No ISBN found" / "No TMDb match", it returns False.
NI_NotFound ==
    /\ pc = "ni_lookup"
    /\ i' = i + 1
    /\ pc' = "ni_loop"
    /\ UNCHANGED <<args, config, notes, files, files0, attachments, backups,
                   now, events, loc, total_changes>>

\* process_note(): a lookup or a download raises (raise_for_status, a timeout)
\* and nothing catches it: the run ends.  An image may have been downloaded
\* by then (the poster, before get_tmdb_watch_providers raises) or be left
\* partly written.
NI_Raises ==
    /\ pc = "ni_lookup"
    /\ \E file_written \in BOOLEAN :
          IF file_written THEN Download("img.jpg")
          ELSE UNCHANGED <<attachments, events>>
    /\ pc' = "crashed"
    /\ UNCHANGED <<args, config, notes, files, files0, backups, now, i, loc,
                   total_changes>>

\* process_note(), a successful enrichment: the ISBN (book) or the TMDB id and
\* the providers (movie) are set, and Image when a cover or poster was found
\* and downloaded; the tag is removed and the note reassembled.  A dry run
\* returns True here; otherwise the change is confirmed unless --yes.
NI_Enriched ==
    /\ pc = "ni_lookup"
    /\ \E image \in BOOLEAN, providers \in {<<>>, <<"Netflix">>} :
          LET rel_path == RelativeTo(attachments_dir \o <<"/", "img.jpg">>,
                                     vault_path)
              fm1 == IF loc.has_book
                     THEN [loc.fm EXCEPT !.ISBN = Some("9780441013593")]
                     ELSE loc.fm
              fm2 == IF image
                     THEN [fm1 EXCEPT
                             !.Image = Some(<<"[[">> \o rel_path \o <<"]]">>)]
                     ELSE fm1
              fm3 == IF loc.has_movie
                     THEN [fm2 EXCEPT !.Service = Some(providers),
                                      !.TMDB = Some("438631")]
                     ELSE fm2
          IN  /\ loc.has_movie \/ providers = <<>>
              /\ IF image THEN Download("img.jpg")
                 ELSE UNCHANGED <<attachments, events>>
              /\ loc' = Rewrite(loc, fm3)
    /\ IF ~args.apply
       THEN /\ total_changes' = total_changes + 1
            /\ i' = i + 1
            /\ pc' = "ni_loop"
       ELSE /\ pc' = IF ~args.yes THEN "ni_confirm" ELSE "ni_backup"
            /\ UNCHANGED <<i, total_changes>>
    /\ UNCHANGED <<args, config, notes, files, files0, backups, now>>

\* confirm("Apply changes to this note?"): declined, process_note returns False.
NI_Confirm ==
    /\ pc = "ni_confirm"
    /\ \E answer \in BOOLEAN :
          /\ Answered(answer)
          /\ IF answer THEN pc' = "ni_backup" /\ UNCHANGED i
             ELSE pc' = "ni_loop" /\ i' = i + 1
    /\ UNCHANGED <<args, config, notes, files, files0, attachments, backups,
                   now, loc, total_changes>>

NI_Backup ==
    /\ pc = "ni_backup"
    /\ backup_note(notes[i])
    /\ pc' = "ni_write"
    /\ UNCHANGED <<args, config, notes, files, files0, attachments, i, loc,
                   total_changes>>

\* write_note(note_path, new_text); process_note returns True.
NI_Write ==
    /\ pc = "ni_write"
    /\ write_note(notes[i], Get(loc.new_text))
    /\ total_changes' = total_changes + 1
    /\ i' = i + 1
    /\ pc' = "ni_loop"
    /\ UNCHANGED <<args, config, notes, files0, attachments, backups, now, loc>>

\* main(), after the loop.
NI_Finish ==
    /\ pc = "ni_loop"
    /\ i > Len(notes)
    /\ pc' = "done"
    /\ UNCHANGED <<args, config, notes, files, files0, attachments, backups,
                   now, events, i, loc, total_changes>>

\* ------------------------------------------------------- needs_info: inputs

\* Entries of a tag field as written in the note, and the lexemes of a body:
\* the three hashtags, a line break of either kind and a word.
RawTags == {"#NeedsInfo", "book", "movie"}
BodyLexemes == {"#needsinfo", "#book", "#movie", "\n", "\r\n", "x"}

\* The sequences of exactly n elements of S.
RECURSIVE SeqsOf(_, _)
SeqsOf(S, n) ==
    IF n = 0 THEN {<<>>}
    ELSE {Append(q, x) : q \in SeqsOf(S, n - 1), x \in S}

\* The values of a tag field with n entries; absent only with none.
TagValues(n) ==
    {Some([kind |-> kd, items |-> it]) :
        kd \in {"list", "str"}, it \in SeqsOf(RawTags, n)}
      \cup (IF n = 0 THEN {None} ELSE {})

\* The note with the tag fields v and w and the body b; without front matter
\* when both fields are absent and no is chosen.
InfoNote(v, w, b, has_fm) ==
    [has_fm |-> has_fm \/ ~IsNone(v) \/ ~IsNone(w),
     fm |-> [NoFields EXCEPT !.tags = v, !.tag = w],
     body |-> b]

\* The runs of needs_info: on a vault that holds one note, of size at most
\* NoteSize, or with --note on a path that does not exist.
NI_Init ==
    /\ args \in [tool : {"needs_info"}, apply : BOOLEAN, yes : BOOLEAN,
                 note : BOOLEAN]
    /\ config = [confirm_writes |-> TRUE]
    /\ notes = <<"a.md">>
    /\ IF args.note THEN files = <<>>
       ELSE \E a \in 0..NoteSize :
            \E c \in 0..(NoteSize - a) :
            \E d \in 0..(NoteSize - a - c) :
            \E v \in TagValues(a), w \in TagValues(c),
               b \in SeqsOf(BodyLexemes, d), has_fm \in BOOLEAN :
               files = [x \in {"a.md"} |-> InfoNote(v, w, b, has_fm)]
    /\ files0 = files
    /\ attachments = {}
    /\ backups = <<>>
    /\ now = 0
    /\ events = <<>>
    /\ pc = "ni_loop"
    /\ i = 1
    /\ loc = NoLocals
    /\ total_changes = 0

NI_Next ==
    \/ NI_SkipMissing
    \/ NI_Examine
    \/ NI_NotFound
    \/ NI_Raises
    \/ NI_Enriched
    \/ NI_Confirm
    \/ NI_Backup
    \/ NI_Write
    \/ NI_Finish

SpecInfo == NI_Init /\ [][NI_Next]_vars

\* ------------------------------------------------------------- either tool

Init == II_Init \/ NI_Init

Next == II_Next \/ NI_Next

Spec == Init /\ [][Next]_vars

\* --------------------------------------------------------- successive runs

\* The command is run again, at once or later, on the vault as the last run
\* left it: notes, attachments and backup store are kept.
Restart ==
    /\ pc \in {"done", "crashed"}
    /\ \E t \in now..MaxClock : now' = t
    /\ files0' = files
    /\ events' = <<>>
    /\ i' = 1
    /\ loc' = NoLocals
    /\ total_changes' = 0
    /\ pc' = IF args.tool = "insert_images" THEN "ii_start" ELSE "ni_loop"
    /\ UNCHANGED <<args, config, notes, files, attachments, backups>>

\* Runs with --apply --yes on the note a.md, by either tool.
Runs_Init ==
    \/ /\ args = [tool |-> "insert_images", apply |-> TRUE, yes |-> TRUE,
                  note |-> TRUE]
       /\ config = [confirm_writes |-> TRUE]
       /\ notes = <<"a.md">>
       /\ files \in {[x \in {"a.md"} |-> d] : d \in Docs(VaultPieces)}
       /\ II_Begin
    \/ /\ NI_Init
       /\ args.apply /\ args.yes /\ ~args.note

Runs_Next ==
    \/ Note_Next
    \/ NI_Examine
    \/ NI_NotFound
    \/ NI_Raises
    \/ NI_Enriched
    \/ NI_Backup
    \/ NI_Write
    \/ NI_Finish
    \/ Restart

SpecRuns == Runs_Init /\ [][Runs_Next]_vars

\* ------------------------------------------- build_replacement on its own

PathLexemes == {"my", " ", "/", "img.jpg"}

\* build_replacement applied to the arguments held in loc.
BR_Apply ==
    /\ pc = "br_call"
    /\ loc' = [loc EXCEPT !.result =
                  Some(build_replacement(loc.image_path, vault_path, loc.alt,
                                         loc.quoted, loc.quote_char))]
    /\ pc' = "br_done"
    /\ UNCHANGED <<args, config, notes, files, files0, attachments, backups,
                   now, events, i, total_changes>>

\* Any path below the vault, any alt (None, empty, a text), quoted or not,
\* with any captured quote character or none.
BR_Init ==
    /\ \E rel \in UNION {SeqsOf(PathLexemes, n) : n \in 1..MaxPath},
          alt \in {None, Some(<<>>), Some(<<"a">>)},
          quoted \in BOOLEAN,
          quote_char \in {None, Some("\""), Some("'")} :
          loc = [tool |-> "build_replacement",
                 image_path |-> vault_path \o <<"/">> \o rel,
                 alt |-> alt, quoted |-> quoted, quote_char |-> quote_char,
                 result |-> None]
    /\ args = [tool |-> "none"]
    /\ config = [confirm_writes |-> TRUE]
    /\ notes = <<>>
    /\ files = <<>>
    /\ files0 = <<>>
    /\ attachments = {}
    /\ backups = <<>>
    /\ now = 0
    /\ events = <<>>
    /\ pc = "br_call"
    /\ i = 1
    /\ total_changes = 0

BR_Next == BR_Apply

SpecFormat == BR_Init /\ [][BR_Next]_vars

\* ===================================================================== claims

Returned(f) == f.tool = "insert_images" /\ LoopDone(f)

SpanLen(m) == m.end - m.start

\* The text made of: the original before the first marker, then per marker its
\* replacement (outs[j], if any) or else its own span, with the original text
\* between the markers, then the original after the last marker; from marker
\* j on, the original being consumed up to offset pos.
RECURSIVE Interleave(_, _, _, _, _)
Interleave(text, ms, outs, j, pos) ==
    IF j > Len(ms) THEN Slice(text, pos, Len(text))
    ELSE Slice(text, pos, ms[j].start)
           \o (IF j <= Len(outs) /\ ~IsNone(outs[j]) THEN Get(outs[j])
               ELSE Slice(text, ms[j].start, ms[j].end))
           \o Interleave(text, ms, outs, j + 1, ms[j].end)

\* The markers of frame f replaced so far.
Resolved(f) == {j \in 1..Len(f.outs) : ~IsNone(f.outs[j])}

\* C1: the text process_note returns is the concatenation of the original
\* before the first marker, each marker's replacement (resolved) or original
\* span (not resolved) with the untouched text between markers, and the
\* original after the last marker, whatever the replacements' lengths.
C1_ByteExactConcatenation ==
    loc.tool = "insert_images" =>
        loc.updated = Interleave(loc.original, loc.markers, loc.outs, 1, 0)

\* C1's case: process_note has returned after replacing one marker by a longer
\* text and a later one by a shorter text, with a third marker not resolved.
C1_Witness ==
    /\ Returned(loc)
    /\ \E a, b \in Resolved(loc) :
          /\ a < b
          /\ Len(Get(loc.outs[a])) > SpanLen(loc.markers[a])
          /\ Len(Get(loc.outs[b])) < SpanLen(loc.markers[b])
    /\ \E c \in 1..Len(loc.outs) : IsNone(loc.outs[c])

\* The shift of offsets that the replacements made before marker j cause.
RECURSIVE Shift(_, _)
Shift(f, j) ==
    IF j <= 1 THEN 0
    ELSE Shift(f, j - 1)
           + (IF j - 1 \in Resolved(f)
              THEN Len(Get(f.outs[j - 1])) - SpanLen(f.markers[j - 1])
              ELSE 0)

WriteEvents == {p \in 1..Len(events) : events[p].op = "write"}

\* C5: a marker whose resolver returns no image keeps its span, changes
\* neither the running offset nor the replacement count, and the other
\* markers are replaced at their positions; with no marker resolved the text
\* is the original, the count is 0 and the note is not written.
C5_UnresolvedMarkerSkipped ==
    loc.tool = "insert_images" =>
        /\ loc.replacements = Cardinality(Resolved(loc))
        /\ loc.offset = Shift(loc, Len(loc.outs) + 1)
        /\ \A j \in 1..Len(loc.outs) :
              LET m == loc.markers[j]
                  at == m.start + Shift(loc, j)
              IN  IF IsNone(loc.outs[j])
                  THEN Slice(loc.updated, at, at + SpanLen(m))
                          = Slice(loc.original, m.start, m.end)
                  ELSE Slice(loc.updated, at, at + Len(Get(loc.outs[j])))
                          = Get(loc.outs[j])
        /\ Resolved(loc) = {} =>
              /\ loc.updated = loc.original
              /\ loc.replacements = 0
              /\ files = files0
              /\ WriteEvents = {}

\* C5's case: process_note has returned with an unresolved marker between two
\* replaced ones, the first replacement changing the length of the text.
C5_Witness ==
    /\ Returned(loc)
    /\ \E a, c, b \in 1..Len(loc.outs) :
          /\ a < c /\ c < b
          /\ a \in Resolved(loc) /\ b \in Resolved(loc)
          /\ IsNone(loc.outs[c])
          /\ Shift(loc, c) # 0

\* C6: a failure of the AIIMAGE strategy never ends process_note: the run
\* does not stop at an AIIMAGE marker, a failed AIIMAGE marker keeps its span,
\* and every marker before the current one has been dealt with.
C6_GenerativeFailureIsLocal ==
    loc.tool = "insert_images" =>
        /\ pc = "crashed" => loc.markers[loc.k].kind # "AIIMAGE"
        /\ Len(loc.outs) = loc.k - 1
        /\ \A j \in 1..Len(loc.outs) :
              (loc.markers[j].kind = "AIIMAGE" /\ IsNone(loc.outs[j])) =>
                  LET m == loc.markers[j]
                      at == m.start + Shift(loc, j)
                  IN  Slice(loc.updated, at, at + SpanLen(m))
                         = Slice(loc.original, m.start, m.end)

\* C6's case: process_note has returned, an AIIMAGE marker has failed and a
\* marker after it has been replaced.
C6_Witness ==
    /\ Returned(loc)
    /\ \E j, b \in 1..Len(loc.outs) :
          /\ j < b
          /\ loc.markers[j].kind = "AIIMAGE"
          /\ IsNone(loc.outs[j])
          /\ b \in Resolved(loc)

\* C7: a note file holds its original content or the final buffer, in which
\* every marker has been dealt with; it is written at most once in a run, and
\* a run that a failure ends leaves the note in progress as it was.
C7_NeverHalfRewritten ==
    args.tool = "insert_images" =>
        /\ \A n \in DOMAIN files :
              \/ files[n] = files0[n]
              \/ \E p \in WriteEvents :
                    events[p].note = n /\ events[p].content = files[n]
        /\ \A p \in WriteEvents :
              LET e == events[p]
              IN  /\ e.pre = files0[e.note]
                  /\ Len(e.at.outs) = Len(e.at.markers)
                  /\ e.at.original = Decode(files0[e.note])
                  /\ e.content = Encode(Interleave(Decode(files0[e.note]),
                                                   e.at.markers, e.at.outs,
                                                   1, 0))
                  /\ \A q \in WriteEvents : events[q].note = e.note => q = p
        /\ pc = "crashed" => files[notes[i]] = files0[notes[i]]

\* C7's case: with --apply, the run has failed at the second marker of a note
\* after the first marker was replaced in the buffer.
C7_Witness ==
    /\ args.tool = "insert_images"
    /\ args.apply
    /\ pc = "crashed"
    /\ loc.k = 2
    /\ Resolved(loc) = {1}
    /\ loc.updated # loc.original

\* C3: every write of a note comes right after a backup of that note, made in
\* the same processing of it, whose content is the content the note file had
\* before the write; and the backup file holds that content.
C3_BackupBeforeWrite ==
    \A p \in WriteEvents :
        /\ p > 1
        /\ events[p - 1].op = "backup"
        /\ events[p - 1].note = events[p].note
        /\ events[p - 1].content = events[p].pre
        /\ <<events[p].note, events[p - 1].timestamp>> \in DOMAIN backups
        /\ backups[<<events[p].note, events[p - 1].timestamp>>] = events[p].pre

\* C2: in a run without --apply no file is written, created or modified:
\* neither a note, nor a backup, nor a file of the attachments directory.
C2_DryRunNeverMutates ==
    ~args.apply =>
        /\ files = files0
        /\ backups = <<>>
        /\ attachments = {}
        /\ events = <<>>

\* C4: when a lookup for an IMAGE, BOOK, MOVIE or TV marker raises, the note
\* is not written and the notes after it in the run are still processed: the
\* run does not end with notes left.
C4_LaterNotesStillProcessed ==
    (args.tool = "insert_images" /\ pc = "crashed"
       /\ loc.markers[loc.k].kind \in RaisingKinds) =>
        /\ files[notes[i]] = files0[notes[i]]
        /\ i = Len(notes) \/ ENABLED II_Next

\* C8: a note with the needs-info tag and both or neither of the book and
\* movie tags is skipped with no mutation: nothing is merged into the front
\* matter, no lookup is made, no backup or image is created, the note is not
\* written and no change is reported, with or without --apply.
C8_AmbiguousNoteSkipped ==
    (loc.tool = "needs_info" /\ loc.has_needsinfo
       /\ ((loc.has_book /\ loc.has_movie) \/ (~loc.has_book /\ ~loc.has_movie))) =>
        /\ pc \in {"ni_loop", "done"}
        /\ loc.fm = (IF files0[notes[1]].has_fm THEN files0[notes[1]].fm
                     ELSE NoFields)
        /\ IsNone(loc.new_text)
        /\ files = files0
        /\ backups = <<>>
        /\ attachments = {}
        /\ events = <<>>
        /\ total_changes = 0

\* C8's case: a run with --apply --yes is over, on a note that has the
\* needs-info tag, the book tag as an inline hashtag and the movie tag in the
\* front matter.
C8_Witness ==
    /\ loc.tool = "needs_info"
    /\ pc = "done"
    /\ args.apply /\ args.yes
    /\ loc.has_needsinfo
    /\ has_inline_tag(loc.body, BOOK_TAG)
    /\ InSeq(MOVIE_TAG, loc.tags)

\* The needs-info tag in any representation: in the tags or the tag field of
\* the front matter, or as an inline hashtag of the body.
CarriesNeedsInfo(text) ==
    \/ InSeq(NEEDSINFO_TAG, parse_tags(text.fm.tags))
    \/ InSeq(NEEDSINFO_TAG, parse_tags(text.fm.tag))
    \/ has_inline_tag(text.body, NEEDSINFO_TAG)

\* C9: after a successful enrichment the rewritten note carries the
\* needs-info tag in no representation: in no tag field of the front matter,
\* given as tags or tag, list or string, and not as an inline hashtag.
C9_TagRemovedEverywhere ==
    (loc.tool = "needs_info" /\ ~IsNone(loc.new_text)) =>
        ~CarriesNeedsInfo(Get(loc.new_text))

BR_Rel == RelativeTo(loc.image_path, vault_path)
BR_Quote == IF IsNone(loc.quote_char) THEN "\"" ELSE Get(loc.quote_char)

\* The result is ![alt](path) with the spaces of the path percent-encoded.
BR_IsAltForm(r) ==
    LET alt == Get(loc.alt)
        n == Len(alt)
    IN  /\ Len(r) = n + Len(BR_Rel) + 3
        /\ r[1] = "!["
        /\ SubSeq(r, 2, n + 1) = alt
        /\ r[n + 2] = "]("
        /\ \A j \in 1..Len(BR_Rel) :
              r[n + 2 + j] = (IF BR_Rel[j] = " " THEN "%20" ELSE BR_Rel[j])
        /\ r[Len(r)] = ")"

BR_IsQuotedForm(r) == r = <<BR_Quote, "[[">> \o BR_Rel \o <<"]]", BR_Quote>>

BR_IsEmbedForm(r) == r = <<"![[">> \o BR_Rel \o <<"]]">>

\* C10 as stated: quoted gives the quoted form for any alt; else an alt that
\* is present gives ![alt](path); else ![[path]].
C10_AsStated ==
    pc = "br_done" =>
        LET r == Get(loc.result)
        IN  IF loc.quoted THEN BR_IsQuotedForm(r)
            ELSE IF ~IsNone(loc.alt) THEN BR_IsAltForm(r)
            ELSE BR_IsEmbedForm(r)

\* C10, amended: quoted gives the quoted form for any alt, never the
\* ![alt](...) form; else an alt that is present and not empty gives
\* ![alt](path) with the spaces of the path percent-encoded; else, with no alt
\* or an empty one, ![[path]].
C10_FormatPrecedence ==
    pc = "br_done" =>
        LET r == Get(loc.result)
        IN  IF loc.quoted THEN BR_IsQuotedForm(r) /\ r[1] # "!["
            ELSE IF ~IsNone(loc.alt) /\ Get(loc.alt) # <<>> THEN BR_IsAltForm(r)
            ELSE BR_IsEmbedForm(r)

\* C10's case: the formatter has run on a quoted marker that has an alt text
\* and no captured quote character, and on a path with a space in it.
C10_Witness ==
    /\ pc = "br_done"
    /\ loc.quoted
    /\ loc.alt = Some(<<"a">>)
    /\ IsNone(loc.quote_char)
    /\ \E j \in 1..Len(BR_Rel) : BR_Rel[j] = " "

\* The prompts for note n answered before event p.
Answers(n, p) ==
    {events[q].answer : q \in {r \in 1..(p - 1) :
                                 events[r].op = "confirm" /\ events[r].note = n}}

\* C11: a note is written only in a run with --apply in which confirmation
\* is off (--yes, or for insert_images confirm_writes false) or the user
\* answered yes for that note; and a note for which the user answered no
\* gets neither a backup nor a write.
C11_PersistOnlyIfConfirmed ==
    /\ \A p \in WriteEvents :
          /\ args.apply
          /\ \/ args.yes
             \/ args.tool = "insert_images" /\ ~config.confirm_writes
             \/ Answers(events[p].note, p) = {TRUE}
    /\ \A q \in 1..Len(events) :
          (events[q].op = "confirm" /\ ~events[q].answer) =>
              /\ \A p \in 1..Len(events) :
                    events[p].op \in {"backup", "write"}
                        => events[p].note # events[q].note
              /\ files[events[q].note] = files0[events[q].note]
              /\ \A k \in DOMAIN backups : k[1] # events[q].note

\* C11's case: in one run the user has declined the change of one note and
\* accepted the change of another, which has been written.
C11_Witness ==
    /\ pc = "done"
    /\ \E q \in 1..Len(events) : events[q].op = "confirm" /\ ~events[q].answer
    /\ \E p \in WriteEvents : Answers(events[p].note, p) = {TRUE}

\* C12: the backup store is append-only over successive applied changes: each
\* call of backup_note adds one new backup file and leaves every backup file
\* that is there with the content it has.
C12_BackupStoreAppendOnly ==
    [][(pc \in {"ii_backup", "ni_backup"} /\ pc' # pc) =>
          /\ Cardinality(DOMAIN backups') = Cardinality(DOMAIN backups) + 1
          /\ \A k \in DOMAIN backups :
                k \in DOMAIN backups' /\ backups'[k] = backups[k]]_vars

\* The comment of marker m in text: the offsets of its "<!--" and of the
\* lexeme after its "-->".
CommentStart(text, m) ==
    IF At(text, m.start) \in Quotes THEN m.start + 1 ELSE m.start
CommentEnd(text, m) == FindFirst(text, CommentStart(text, m), {"-->"}) + 1

\* The comment of marker m is wrapped in a matching quote character: a quote
\* character is right before it and the same character right after it.
Wrapped(text, m) ==
    /\ CommentStart(text, m) >= 1
    /\ At(text, CommentStart(text, m) - 1) \in Quotes
    /\ At(text, CommentEnd(text, m)) = At(text, CommentStart(text, m) - 1)

\* The number of quote characters in a text.
RECURSIVE CountQuotes(_)
CountQuotes(text) ==
    IF text = <<>> THEN 0
    ELSE (IF Head(text) \in Quotes THEN 1 ELSE 0) + CountQuotes(Tail(text))

\* C13: a marker found by find_markers is quoted exactly when its comment is
\* wrapped in a matching quote character, and then its span covers both
\* quotes; a comment with only a leading quote, or with another closing
\* quote, is not quoted; so a replacement has as many quote characters as
\* the span it replaces.
C13_QuotedIffWrapped ==
    loc.tool = "insert_images" =>
        /\ \A j \in 1..Len(loc.markers) :
              LET m == loc.markers[j]
              IN  /\ m.quoted <=> Wrapped(loc.original, m)
                  /\ m.quoted =>
                        /\ m.start = CommentStart(loc.original, m) - 1
                        /\ m.end = CommentEnd(loc.original, m) + 1
        /\ \A j \in Resolved(loc) :
              CountQuotes(Get(loc.outs[j]))
                 = CountQuotes(Slice(loc.original, loc.markers[j].start,
                                     loc.markers[j].end))

\* A run of needs_info on a note that an earlier run has updated and written:
\* the note has a backup, and none was made in this run.
RunAfterUpdate ==
    /\ args.tool = "needs_info"
    /\ DOMAIN backups # {}
    /\ \A p \in 1..Len(events) : events[p].op # "backup"

\* C14: process_note, run again on a note it has updated and written, finds
\* no needs-info tag, makes no lookup, writes nothing and reports no change,
\* whatever the shape of the original tag field.
C14_EnrichmentConverges ==
    (RunAfterUpdate /\ loc.tool = "needs_info") =>
        /\ ~loc.has_needsinfo
        /\ pc \in {"ni_loop", "done"}
        /\ IsNone(loc.new_text)
        /\ files = files0
        /\ events = <<>>
        /\ total_changes = 0

====
